---- MODULE Spec2Model ----
(***************************************************************************)
(* Model of the PaddleOCR command line tool (src/src/main.rs): main, the   *)
(* interactive loop run_interactive_mode, the single-shot path process_ocr *)
(* and the aggregation/formatting routine process_ocr_with_mode.           *)
(*                                                                         *)
(* Text is modelled as sequences of one-character strings so that trim,    *)
(* case folding and extension extraction are computed, not assumed.        *)
(* The engine (OcrEngineManager) and image::open are external calls: each  *)
(* call is a step whose outcome is chosen nondeterministically.            *)
(* info! logging is not modelled; error!/eprintln! lines go to stderr.     *)
(* Console reads and flushes are taken to succeed (they are unwrapped in  *)
(* the source); end of input is the empty line read_line then returns.    *)
(* stdout, stderr and calls hold what happened since the current loop     *)
(* iteration began (since process start in single-shot mode); the values  *)
(* of a request stay readable until the next line is read at the prompt.  *)
(***************************************************************************)
EXTENDS Integers, Sequences, FiniteSets, TLC

\* ------------------------------------------------------------------ bounds
\* Largest number of rectangles / sub-images / strings the engine returns.
MaxRegions == 2
\* Largest number of lines read at the main prompt in one session.
MaxIterations == 2

\* ------------------------------------------------------------ text helpers
Whitespace == {" ", "\t", "\n", "\r"}

RECURSIVE TrimStart(_)
TrimStart(s) ==
    IF s # <<>> /\ Head(s) \in Whitespace THEN TrimStart(Tail(s)) ELSE s

RECURSIVE TrimEnd(_)
TrimEnd(s) ==
    IF s # <<>> /\ s[Len(s)] \in Whitespace
    THEN TrimEnd(SubSeq(s, 1, Len(s) - 1))
    ELSE s

\* str::trim
Trim(s) == TrimEnd(TrimStart(s))

UpperCase == <<"A","B","C","D","E","F","G","H","I","J","K","L","M",
               "N","O","P","Q","R","S","T","U","V","W","X","Y","Z">>
LowerCase == <<"a","b","c","d","e","f","g","h","i","j","k","l","m",
               "n","o","p","q","r","s","t","u","v","w","x","y","z">>

\* u8::to_ascii_lowercase on one character
ToAsciiLowerChar(c) ==
    IF \E k \in 1..Len(UpperCase) : UpperCase[k] = c
    THEN LowerCase[CHOOSE k \in 1..Len(UpperCase) : UpperCase[k] = c]
    ELSE c

\* str::to_lowercase, on the ASCII texts of the model
ToLowercase(s) == [k \in 1..Len(s) |-> ToAsciiLowerChar(s[k])]

\* str::eq_ignore_ascii_case
EqIgnoreAsciiCase(a, b) ==
    /\ Len(a) = Len(b)
    /\ \A k \in 1..Len(a) : ToAsciiLowerChar(a[k]) = ToAsciiLowerChar(b[k])

\* Index of the last occurrence of character c in s, 0 when absent.
RECURSIVE LastIndexOf(_, _)
LastIndexOf(s, c) ==
    IF s = <<>> THEN 0
    ELSE IF s[Len(s)] = c THEN Len(s)
    ELSE LastIndexOf(SubSeq(s, 1, Len(s) - 1), c)

\* Path::file_name: the last component of the path (the paths of the model
\* have no trailing separator)
FileName(p) == SubSeq(p, LastIndexOf(p, "/") + 1, Len(p))

\* Faulty variant: the extension is compared without lower-casing it.
ExtensionAsWritten(p) ==
    LET name == FileName(p)
        dot  == LastIndexOf(name, ".")
    IN  IF dot <= 1 THEN <<>> ELSE SubSeq(name, dot + 1, Len(name))

\* Path::extension(...).map(to_lowercase).unwrap_or_default(): the part of
\* the file name after its last dot; none (empty) when the file name has no
\* dot or only a leading one.
Extension(p) ==
    LET name == FileName(p)
        dot  == LastIndexOf(name, ".")
    IN  IF dot <= 1 THEN <<>>
        ELSE ToLowercase(SubSeq(name, dot + 1, Len(name)))

\* ------------------------------------------------------------ environment
\* Paths that exist in the file system of the run.
A_PNG == <<"a",".","p","n","g">>
B_JPG == <<"b",".","J","P","G">>
C_TXT == <<"c",".","t","x","t">>
NOEXT == <<"n","o","e","x","t">>
GONE_PNG == <<"g","o","n","e",".","p","n","g">>

Files == {A_PNG, B_JPG, C_TXT, NOEXT}

\* Faulty variant: the existence check always passes.
ExistsAlways(p) == p = p

\* Path::exists
Exists(p) == p \in Files

\* Lines the operator may type; read_line keeps the line terminator, and
\* returns the empty string at end of input.
Lines ==
    { <<"e","x","i","t","\n">>,
      <<" ","E","X","I","T"," ","\n">>,
      <<"E","x","i","t","\r","\n">>,
      <<"q","u","i","t","\n">>,
      <<"Q","U","I","T","\n">>,
      <<"e","x","i","t","s","\n">>,
      <<"\n">>,
      <<" ","\t","\n">>,
      <<>>,
      A_PNG \o <<"\n">>,
      <<" ">> \o B_JPG \o <<"\r","\n">>,
      C_TXT \o <<"\n">>,
      NOEXT \o <<"\n">>,
      GONE_PNG \o <<"\n">>,
      <<"y","\n">>,
      <<"Y","E","S","\n">>,
      <<"n","\n">>,
      <<"y","e","s","s","\n">>,
      <<"e","x"," ","i","t","\n">> }

None == <<"None">>

\* --path values given on the command line
ArgPaths == {None, A_PNG, GONE_PNG}

\* Rectangles the detector may return (Rect: left, top, width, height).
Rects ==
    { [left |-> 10, top |-> 5, width |-> 40, height |-> 12],
      [left |-> 0,  top |-> 7, width |-> 0,  height |-> 12] }

\* Sub-images the crop extractor may return, by their dimensions.
SubImages ==
    { [width |-> 40, height |-> 12],
      [width |-> 0,  height |-> 12],
      [width |-> 40, height |-> 0] }

\* Strings the recogniser may return.
Texts == {"Hello", "World"}

SeqsUpTo(S, n) == UNION { [1..k -> S] : k \in 0..n }

\* ------------------------------------------------------------------ state
VARIABLES
    pc,            \* position of the program
    args,          \* parsed command line (Args)
    initCalls,     \* number of calls of initialize_with_config_and_bytes
    engineInitialized, \* the engine singleton has been set up
    iterations,    \* lines read at the main prompt so far
    lastLine,      \* the line most recently returned by read_line
    path,          \* image path of the current request
    confirm,       \* trimmed answer to the confirmation prompt, None if not asked
    text_rects,    \* get_text_rects result of the current request
    text_images,   \* get_text_images result of the current request
    i,             \* number of (rect, image) pairs the loop has consumed
    results,       \* Vec<TextBox> under construction
    resultIdx,     \* for each element of results, the region index it came from
    calls,         \* engine/image calls made since the current iteration began
    engineRegions, \* regions the engine detected for the current image
    result,        \* what process_ocr_with_mode returned, NoResult while running
    errors,        \* requests of this run that returned an error
    stdout,        \* written to standard output since the iteration began
    stderr,        \* written to standard error since the iteration began
    exitCode       \* process exit status, -1 while running

vars == <<pc, args, initCalls, engineInitialized, iterations, lastLine, path,
          confirm, text_rects, text_images, i, results, resultIdx, calls,
          engineRegions, result, errors, stdout, stderr, exitCode>>

request == <<text_rects, text_images, i, results, resultIdx, engineRegions>>


\* ----------------------------------------------------------------- values
NoResult == [kind |-> "none", error |-> "", msg |-> ""]
Ok == [kind |-> "ok", error |-> "", msg |-> ""]
Err(e, m) == [kind |-> "err", error |-> e, msg |-> m]

\* One println!/print! of a string
Line(s) == [kind |-> "line", text |-> s, array |-> <<>>]
\* A printed JSON array of objects
JsonArray(rs) == [kind |-> "json", text |-> "", array |-> rs]

PromptLine == Line("> ")
ConfirmLine == Line("Do you want to continue? (y/N): ")
ExitingLine == Line("Exiting interactive mode...")
BannerLines == << Line("PaddleOCR Interactive Mode Started"),
                 Line("Enter image file paths to process (type 'exit' or 'quit' to exit):") >>
VersionLine == Line("PaddleOCR CLI - Model Version: PP-OCR")

\* A call-log entry; text holds the string or strings the call returned.
Call(op, idx, ok, text) == [op |-> op, idx |-> idx, ok |-> ok, text |-> text]

EXIT == <<"e","x","i","t">>
QUIT == <<"q","u","i","t">>
Y == <<"y">>
YES == <<"y","e","s">>

ImageExtensions ==
    { <<"j","p","g">>, <<"j","p","e","g">>, <<"p","n","g">>,
      <<"b","m","p">>, <<"t","i","f","f">>, <<"w","e","b","p">> }

\* ------------------------------------------------------------------- Init
Init ==
    /\ pc = "main"
    /\ args \in [version_info : BOOLEAN, interactive : BOOLEAN,
                 path : ArgPaths, mode : {"Json", "Text"}]
    /\ initCalls = 0
    /\ engineInitialized = FALSE
    /\ iterations = 0
    /\ lastLine = None
    /\ path = None
    /\ confirm = None
    /\ text_rects = <<>>
    /\ text_images = <<>>
    /\ i = 0
    /\ results = <<>>
    /\ resultIdx = <<>>
    /\ calls = <<>>
    /\ engineRegions = 0
    /\ result = NoResult
    /\ errors = 0
    /\ stdout = <<>>
    /\ stderr = <<>>
    /\ exitCode = -1

\* ------------------------------------------------------------------- main
\* Faulty variant: the process always reports status 0.
ExitZero(code) ==
    /\ pc' = "done"
    /\ exitCode' = 0

\* The process ends with the given status.
Exit(code) ==
    /\ pc' = "done"
    /\ exitCode' = code

\* main returns Err(e): the runtime prints the error and exits with status 1.
MainErr(err) ==
    /\ Exit(1)
    /\ stderr' = Append(err, "Error: main returned Err")

\* OcrEngineManager::initialize_with_config_and_bytes(...) returning ok
InitializeEngine(ok) ==
    /\ initCalls' = initCalls + 1
    /\ engineInitialized' = (engineInitialized \/ ok)

\* Faulty variant: the version is printed after the engine was initialised.
VersionInfoAfterInit ==
    /\ pc = "main"
    /\ args.version_info
    /\ InitializeEngine(TRUE)
    /\ stdout' = Append(stdout, VersionLine)
    /\ Exit(0)
    /\ UNCHANGED <<args, iterations, lastLine, path, confirm, request, calls,
                   result, errors, stderr>>

\* main, --version-info given
VersionInfo ==
    /\ pc = "main"
    /\ args.version_info
    /\ stdout' = Append(stdout, VersionLine)
    /\ Exit(0)
    /\ UNCHANGED <<args, initCalls, engineInitialized, iterations, lastLine,
                   path, confirm, request, calls, result, errors, stderr>>

\* main, --server given: run_interactive_mode up to the first prompt
RunInteractiveMode ==
    /\ pc = "main"
    /\ ~args.version_info
    /\ args.interactive
    /\ stdout' = stdout \o BannerLines
    /\ \E ok \in BOOLEAN :
          /\ InitializeEngine(ok)
          /\ IF ok
             THEN /\ pc' = "prompt"
                  /\ UNCHANGED <<exitCode, stderr>>
             ELSE MainErr(stderr)
    /\ UNCHANGED <<args, iterations, lastLine, path, confirm, request, calls,
                   result, errors>>

\* main, single-shot without --path: std::process::exit(1)
MissingPath ==
    /\ pc = "main"
    /\ ~args.version_info
    /\ ~args.interactive
    /\ args.path = None
    /\ stderr' = stderr \o << "Error: Image path is required for OCR processing",
                             "Use --help for more information." >>
    /\ Exit(1)
    /\ UNCHANGED <<args, initCalls, engineInitialized, iterations, lastLine,
                   path, confirm, request, calls, result, errors, stdout>>

\* Faulty variant: the engine is initialised before the path is checked.
InputNotFoundAfterInit ==
    /\ pc = "main"
    /\ ~args.version_info
    /\ ~args.interactive
    /\ args.path # None
    /\ ~Exists(args.path)
    /\ InitializeEngine(TRUE)
    /\ MainErr(Append(stderr, "Input image file does not exist"))
    /\ UNCHANGED <<args, iterations, lastLine, path, confirm, request, calls,
                   result, errors, stdout>>

\* main, single-shot with a path that does not exist: Err(InputError)
InputNotFound ==
    /\ pc = "main"
    /\ ~args.version_info
    /\ ~args.interactive
    /\ args.path # None
    /\ ~Exists(args.path)
    /\ MainErr(Append(stderr, "Input image file does not exist"))
    /\ UNCHANGED <<args, initCalls, engineInitialized, iterations, lastLine,
                   path, confirm, request, calls, result, errors, stdout>>

\* main, single-shot with an existing path: process_ocr initialises the
\* engine and enters process_ocr_with_mode
ProcessOcr ==
    /\ pc = "main"
    /\ ~args.version_info
    /\ ~args.interactive
    /\ args.path # None
    /\ Exists(args.path)
    /\ \E ok \in BOOLEAN :
          /\ InitializeEngine(ok)
          /\ IF ok
             THEN /\ pc' = "load"
                  /\ path' = args.path
                  /\ UNCHANGED <<exitCode, stderr>>
             ELSE /\ MainErr(stderr)
                  /\ UNCHANGED path
    /\ UNCHANGED <<args, iterations, lastLine, confirm, request, calls,
                   result, errors, stdout>>

\* ------------------------------------------------- process_ocr_with_mode
\* Faulty variant: the interactive loop propagates the error with `?`.
ReturnPropagating(res, out, err) ==
    /\ result' = res
    /\ errors' = IF res.kind = "err" THEN errors + 1 ELSE errors
    /\ stdout' = out
    /\ IF res.kind = "err"
       THEN /\ pc' = "done"
            /\ exitCode' = 1
            /\ stderr' = Append(err, "Error: main returned Err")
       ELSE IF args.interactive
            THEN /\ pc' = "prompt"
                 /\ stderr' = err
                 /\ UNCHANGED exitCode
            ELSE /\ pc' = "done"
                 /\ exitCode' = 0
                 /\ stderr' = err

\* process_ocr_with_mode returns res to its caller, having written out and
\* err: the interactive loop logs an error and prompts again; in single-shot
\* mode main propagates the result and the process ends.
Return(res, out, err) ==
    /\ result' = res
    /\ errors' = IF res.kind = "err" THEN errors + 1 ELSE errors
    /\ stdout' = out
    /\ IF args.interactive
       THEN /\ pc' = "prompt"
            /\ stderr' = IF res.kind = "err"
                         THEN Append(err, "Error processing image")
                         ELSE err
            /\ UNCHANGED exitCode
       ELSE IF res.kind = "err"
            THEN MainErr(err)
            ELSE /\ Exit(0)
                 /\ stderr' = err

\* image::open(image_path), then the match on mode
LoadImage ==
    /\ pc = "load"
    /\ \E ok \in BOOLEAN :
          /\ calls' = Append(calls, Call("image::open", 0, ok, <<>>))
          /\ IF ok
             THEN /\ pc' = IF args.mode = "Json" THEN "detect" ELSE "text"
                  /\ UNCHANGED <<result, errors, stdout, stderr, exitCode>>
             ELSE Return(Err("ImageError", "image::open"), stdout,
                         Append(stderr, "Failed to load image"))
    /\ UNCHANGED <<args, initCalls, engineInitialized, iterations, lastLine,
                   path, confirm, request>>

\* Faulty variant: the empty detection result is not returned early.
NoRegionsNever(rects) == rects # rects

\* text_rects.is_empty(): "No text regions detected"
NoRegions(rects) == rects = <<>>

\* Json mode: get_text_rects and the empty-result early return
GetTextRects ==
    /\ pc = "detect"
    /\ \/ \E rects \in SeqsUpTo(Rects, MaxRegions) :
             /\ calls' = Append(calls, Call("get_text_rects", 0, TRUE, <<>>))
             /\ text_rects' = rects
             /\ engineRegions' = Len(rects)
             /\ IF NoRegions(rects)
                THEN Return(Ok, Append(stdout, Line("[]")), stderr)
                ELSE /\ pc' = "extract"
                     /\ UNCHANGED <<result, errors, stdout, stderr, exitCode>>
       \/ /\ calls' = Append(calls, Call("get_text_rects", 0, FALSE, <<>>))
          /\ Return(Err("EngineError", "get_text_rects"), stdout, stderr)
          /\ UNCHANGED <<text_rects, engineRegions>>
    /\ UNCHANGED <<args, initCalls, engineInitialized, iterations, lastLine,
                   path, confirm, text_images, i, results, resultIdx>>

\* Faulty variant: the count check only catches missing sub-images.
MismatchOnlyFewer(rects, images) == Len(rects) > Len(images)

\* text_rects.len() != text_images.len()
Mismatch(rects, images) == Len(rects) # Len(images)

\* Json mode: get_text_images and the count check
GetTextImages ==
    /\ pc = "extract"
    /\ \/ \E images \in SeqsUpTo(SubImages, MaxRegions) :
             /\ calls' = Append(calls, Call("get_text_images", 0, TRUE, <<>>))
             /\ text_images' = images
             /\ IF Mismatch(text_rects, images)
                THEN Return(Err("EngineError", "Inconsistent detection results"),
                            stdout,
                            Append(stderr, "Mismatch between text rectangles and text images"))
                ELSE /\ pc' = "loop"
                     /\ UNCHANGED <<result, errors, stdout, stderr, exitCode>>
       \/ /\ calls' = Append(calls, Call("get_text_images", 0, FALSE, <<>>))
          /\ Return(Err("EngineError", "get_text_images"), stdout, stderr)
          /\ UNCHANGED text_images
    /\ UNCHANGED <<args, initCalls, engineInitialized, iterations, lastLine,
                   path, confirm, text_rects, i, results, resultIdx,
                   engineRegions>>

Min(a, b) == IF a <= b THEN a ELSE b

\* Number of pairs text_rects.iter().zip(text_images.iter()) yields
ZipLen == Min(Len(text_rects), Len(text_images))

\* Faulty variant: a sub-image is skipped only when both dimensions are zero.
ZeroDimensionsBoth(img) == img.width = 0 /\ img.height = 0

\* text_img.width() == 0 || text_img.height() == 0
ZeroDimensions(img) == img.width = 0 \/ img.height = 0

\* Faulty variant: width and height are swapped in the position.
TextBoxSwapped(text, rect) ==
    [text |-> text,
     confidence |-> 1,
     position |-> [left |-> rect.left, top |-> rect.top,
                   width |-> rect.height, height |-> rect.width]]

\* TextBox { text, confidence: 1.0, position: TextBoxPosition {...} }
DefaultConfidence == 1
TextBox(text, rect) ==
    [text |-> text,
     confidence |-> DefaultConfidence,
     position |-> [left |-> rect.left, top |-> rect.top,
                   width |-> rect.width, height |-> rect.height]]

\* Faulty variant: new elements are inserted at the front.
PushFront(v, x) == <<x>> \o v

\* results.push(x)
Push(v, x) == Append(v, x)

\* Json mode, loop body: a sub-image with a zero dimension is logged and
\* skipped (continue)
SkipInvalidSubimage ==
    /\ pc = "loop"
    /\ i < ZipLen
    /\ ZeroDimensions(text_images[i + 1])
    /\ i' = i + 1
    /\ stderr' = Append(stderr, "Invalid subimage with zero dimensions")
    /\ UNCHANGED <<pc, args, initCalls, engineInitialized, iterations, lastLine,
                   path, confirm, text_rects, text_images, results, resultIdx,
                   calls, engineRegions, result, errors, stdout, exitCode>>

\* Faulty variant: each record is printed as soon as it is recognised.
RecognizeOkPrintsRecord ==
    /\ pc = "loop"
    /\ i < ZipLen
    /\ ~(text_images[i + 1].width = 0 \/ text_images[i + 1].height = 0)
    /\ i' = i + 1
    /\ \E text \in Texts :
          /\ calls' = Append(calls, Call("recognize_text", i + 1, TRUE, <<text>>))
          /\ results' = Append(results, TextBox(text, text_rects[i + 1]))
          /\ resultIdx' = Append(resultIdx, i + 1)
          /\ stdout' = Append(stdout, JsonArray(<<TextBox(text, text_rects[i + 1])>>))
    /\ UNCHANGED <<pc, args, initCalls, engineInitialized, iterations, lastLine,
                   path, confirm, text_rects, text_images, engineRegions,
                   result, errors, stderr, exitCode>>

\* Json mode, loop body: recognize_text returns Ok(text), a TextBox is pushed
RecognizeOk ==
    /\ pc = "loop"
    /\ i < ZipLen
    /\ ~ZeroDimensions(text_images[i + 1])
    /\ i' = i + 1
    /\ \E text \in Texts :
          /\ calls' = Append(calls, Call("recognize_text", i + 1, TRUE, <<text>>))
          /\ results' = Push(results, TextBox(text, text_rects[i + 1]))
          /\ resultIdx' = Push(resultIdx, i + 1)
    /\ UNCHANGED <<pc, args, initCalls, engineInitialized, iterations, lastLine,
                   path, confirm, text_rects, text_images, engineRegions,
                   result, errors, stdout, stderr, exitCode>>

\* Faulty variant: a recognition error is propagated out of the request.
RecognizeErrAborts ==
    /\ pc = "loop"
    /\ i < ZipLen
    /\ ~(text_images[i + 1].width = 0 \/ text_images[i + 1].height = 0)
    /\ i' = i + 1
    /\ calls' = Append(calls, Call("recognize_text", i + 1, FALSE, <<>>))
    /\ Return(Err("EngineError", "recognize_text"), stdout, stderr)
    /\ UNCHANGED <<args, initCalls, engineInitialized, iterations, lastLine,
                   path, confirm, text_rects, text_images, results, resultIdx,
                   engineRegions>>

\* Json mode, loop body: recognize_text returns Err(e), which is logged
RecognizeErr ==
    /\ pc = "loop"
    /\ i < ZipLen
    /\ ~ZeroDimensions(text_images[i + 1])
    /\ i' = i + 1
    /\ calls' = Append(calls, Call("recognize_text", i + 1, FALSE, <<>>))
    /\ stderr' = Append(stderr, "Failed to recognize text in region")
    /\ UNCHANGED <<pc, args, initCalls, engineInitialized, iterations, lastLine,
                   path, confirm, text_rects, text_images, results, resultIdx,
                   engineRegions, result, errors, stdout, exitCode>>

\* Faulty variant: an empty Vec renders as null.
ToStringPrettyNullWhenEmpty(rs) ==
    IF rs = <<>> THEN Line("null") ELSE JsonArray(rs)

\* serde_json::to_string_pretty(&results): an empty Vec renders as "[]"
ToStringPretty(rs) == IF rs = <<>> THEN Line("[]") ELSE JsonArray(rs)

\* to_string_pretty returns Err: it cannot for a Vec<TextBox> (strings,
\* integers and the finite f32 1.0, written to memory), so the map_err arm
\* is never taken.
SerializeFails(rs) == FALSE

\* Json mode, after the loop: serialise and print the results
PrintJson ==
    /\ pc = "loop"
    /\ i >= ZipLen
    /\ IF SerializeFails(results)
       THEN Return(Err("OutputError", "to_string_pretty"), stdout, stderr)
       ELSE Return(Ok, Append(stdout, ToStringPretty(results)), stderr)
    /\ UNCHANGED <<args, initCalls, engineInitialized, iterations, lastLine,
                   path, confirm, request, calls>>

\* Faulty variant: the strings are printed last to first.
PrintLinesReversed(texts) ==
    [k \in 1..Len(texts) |-> Line(texts[Len(texts) + 1 - k])]

\* for text in texts { println!("{}", text); }
PrintLines(texts) == [k \in 1..Len(texts) |-> Line(texts[k])]

\* Text mode: OcrEngineManager::process_ocr(img) and one println! per string.
\* The engine detects n regions internally and returns at most one string
\* per region.
ProcessOcrFull(n, texts) ==
    /\ n \in 0..MaxRegions
    /\ texts \in SeqsUpTo(Texts, n)

TextMode ==
    /\ pc = "text"
    /\ \/ \E n \in 0..MaxRegions : \E texts \in SeqsUpTo(Texts, MaxRegions) :
             /\ ProcessOcrFull(n, texts)
             /\ calls' = Append(calls, Call("process_ocr", 0, TRUE, texts))
             /\ engineRegions' = n
             /\ Return(Ok, stdout \o PrintLines(texts), stderr)
       \/ /\ calls' = Append(calls, Call("process_ocr", 0, FALSE, <<>>))
          /\ Return(Err("EngineError", "process_ocr"), stdout, stderr)
          /\ UNCHANGED engineRegions
    /\ UNCHANGED <<args, initCalls, engineInitialized, iterations, lastLine,
                   path, confirm, text_rects, text_images, i, results,
                   resultIdx>>

\* --------------------------------------------------- run_interactive_mode
\* Faulty variant: the exit words are compared case-sensitively.
IsExitCommandExact(input) == input = EXIT \/ input = QUIT

\* input.eq_ignore_ascii_case("exit") || input.eq_ignore_ascii_case("quit")
IsExitCommand(input) ==
    EqIgnoreAsciiCase(input, EXIT) \/ EqIgnoreAsciiCase(input, QUIT)

\* input.is_empty()
IsEmpty(input) == input = <<>>

\* ["jpg", "jpeg", "png", "bmp", "tiff", "webp"].contains(&extension)
IsImageExtension(ext) == ext \in ImageExtensions

\* Faulty variant: every answer but "n" counts as a yes.
IsAffirmativeUnlessNo(answer) == ~EqIgnoreAsciiCase(answer, <<"n">>)

\* confirm.eq_ignore_ascii_case("y") || confirm.eq_ignore_ascii_case("yes")
IsAffirmative(answer) ==
    EqIgnoreAsciiCase(answer, Y) \/ EqIgnoreAsciiCase(answer, YES)

\* Faulty variant: the loop body calls process_ocr, which initialises the engine.
DispatchViaProcessOcr ==
    /\ pc' = "load"
    /\ initCalls' = initCalls + 1
    /\ UNCHANGED engineInitialized

\* The loop body calls process_ocr_with_mode(&path, &mode, verbose): the
\* engine is used as it is, not initialised again.
Dispatch ==
    /\ pc' = "load"
    /\ UNCHANGED <<initCalls, engineInitialized>>

\* One pass of the loop from the prompt: print "> ", read a line, trim it,
\* then exit, re-prompt, ask for confirmation or process the path.
ReadInput ==
    /\ pc = "prompt"
    /\ iterations < MaxIterations
    /\ iterations' = iterations + 1
    /\ text_rects' = <<>>
    /\ text_images' = <<>>
    /\ i' = 0
    /\ results' = <<>>
    /\ resultIdx' = <<>>
    /\ engineRegions' = 0
    /\ calls' = <<>>
    /\ result' = NoResult
    /\ confirm' = None
    /\ \E line \in Lines :
          LET input == Trim(line) IN
          /\ lastLine' = line
          /\ IF IsExitCommand(input)
             THEN /\ stdout' = <<PromptLine, ExitingLine>>
                  /\ stderr' = <<>>
                  /\ path' = None
                  /\ Exit(0)
                  /\ UNCHANGED <<initCalls, engineInitialized>>
             ELSE IF IsEmpty(input)
             THEN /\ stdout' = <<PromptLine>>
                  /\ stderr' = <<>>
                  /\ path' = None
                  /\ UNCHANGED <<pc, exitCode, initCalls, engineInitialized>>
             ELSE IF ~Exists(input)
             THEN /\ stdout' = <<PromptLine>>
                  /\ stderr' = <<"Error: File does not exist">>
                  /\ path' = None
                  /\ UNCHANGED <<pc, exitCode, initCalls, engineInitialized>>
             ELSE IF ~IsImageExtension(Extension(input))
             THEN /\ stdout' = <<PromptLine, ConfirmLine>>
                  /\ stderr' = <<"Warning: File does not appear to be an image">>
                  /\ path' = input
                  /\ pc' = "confirm"
                  /\ UNCHANGED <<exitCode, initCalls, engineInitialized>>
             ELSE /\ stdout' = <<PromptLine>>
                  /\ stderr' = <<>>
                  /\ path' = input
                  /\ Dispatch
                  /\ UNCHANGED exitCode
    /\ UNCHANGED <<args, errors>>

\* Faulty variant: a non-affirmative answer asks the question again.
ReadConfirmAsksAgain ==
    /\ pc = "confirm"
    /\ \E line \in Lines :
          LET answer == Trim(line) IN
          /\ lastLine' = line
          /\ confirm' = answer
          /\ IF ~(EqIgnoreAsciiCase(answer, Y) \/ EqIgnoreAsciiCase(answer, YES))
             THEN UNCHANGED <<pc, initCalls, engineInitialized>>
             ELSE /\ pc' = "load"
                  /\ UNCHANGED <<initCalls, engineInitialized>>
    /\ UNCHANGED <<args, iterations, path, request, calls, result, errors,
                   stdout, stderr, exitCode>>

\* The confirmation sub-prompt: read a line, trim it, process the path only
\* on an affirmative answer.
ReadConfirm ==
    /\ pc = "confirm"
    /\ \E line \in Lines :
          LET answer == Trim(line) IN
          /\ lastLine' = line
          /\ confirm' = answer
          /\ IF ~IsAffirmative(answer)
             THEN /\ pc' = "prompt"
                  /\ UNCHANGED <<initCalls, engineInitialized>>
             ELSE Dispatch
    /\ UNCHANGED <<args, iterations, path, request, calls, result, errors,
                   stdout, stderr, exitCode>>

\* ------------------------------------------------------------------- Next
Next ==
    \/ VersionInfo
    \/ RunInteractiveMode
    \/ MissingPath
    \/ InputNotFound
    \/ ProcessOcr
    \/ ReadInput
    \/ ReadConfirm
    \/ LoadImage
    \/ GetTextRects
    \/ GetTextImages
    \/ SkipInvalidSubimage
    \/ RecognizeOk
    \/ RecognizeErr
    \/ PrintJson
    \/ TextMode

Spec == Init /\ [][Next]_vars

\* An interactive session: main with --server and without --version-info.
\* run_interactive_mode receives only args.mode and args.verbose, so --path
\* is left out.
InteractiveInit ==
    /\ Init
    /\ args.interactive
    /\ ~args.version_info
    /\ args.path = None

InteractiveNext ==
    \/ RunInteractiveMode
    \/ ReadInput
    \/ ReadConfirm
    \/ LoadImage
    \/ GetTextRects
    \/ GetTextImages
    \/ SkipInvalidSubimage
    \/ RecognizeOk
    \/ RecognizeErr
    \/ PrintJson
    \/ TextMode

\* The program is one thread of blocking calls: as long as every console
\* read and every engine call returns, it takes its next step.
InteractiveSpec ==
    InteractiveInit /\ [][InteractiveNext]_vars /\ WF_vars(InteractiveNext)

TypeOK ==
    /\ pc \in {"main", "prompt", "confirm", "load", "detect", "extract",
               "loop", "text", "done"}
    /\ exitCode \in {-1, 0, 1}
    /\ initCalls \in Nat
    /\ i \in 0..MaxRegions

\* =================================================================== claims
\* Vocabulary of the claims, stated independently of the operators above.

\* The request of the current iteration has returned.
Returned == result.kind # "none"

\* The engine call op was made in this request and succeeded.
CalledOk(op) == \E c \in 1..Len(calls) : calls[c].op = op /\ calls[c].ok

\* The engine call op was made in this request.
Called(op) == \E c \in 1..Len(calls) : calls[c].op = op

\* recognize_text was called on the sub-image at index k.
RecognizeCalledOn(k) ==
    \E c \in 1..Len(calls) : calls[c].op = "recognize_text" /\ calls[c].idx = k

\* recognize_text on the sub-image at index k returned Ok.
RecognizedOk(k) ==
    \E c \in 1..Len(calls) :
        calls[c].op = "recognize_text" /\ calls[c].idx = k /\ calls[c].ok

\* recognize_text on the sub-image at index k returned Err.
RecognizeFailedOn(k) ==
    \E c \in 1..Len(calls) :
        calls[c].op = "recognize_text" /\ calls[c].idx = k /\ ~calls[c].ok

\* The text recognize_text returned for the sub-image at index k.
RecognizedText(k) ==
    LET c == CHOOSE c \in 1..Len(calls) :
                 calls[c].op = "recognize_text" /\ calls[c].idx = k
    IN  calls[c].text[1]

\* Lines the interactive session itself prints.
SessionTexts ==
    { "> ", "Do you want to continue? (y/N): ",
      "PaddleOCR Interactive Mode Started",
      "Enter image file paths to process (type 'exit' or 'quit' to exit):",
      "Exiting interactive mode..." }

\* What the request itself wrote to standard output: everything but the
\* lines of the interactive session.
RequestOutput ==
    SelectSeq(stdout, LAMBDA x : x.kind = "json" \/ x.text \notin SessionTexts)

\* The records printed by the request, in printed order.
PrintedRecords ==
    IF \E k \in 1..Len(stdout) : stdout[k].kind = "json"
    THEN stdout[CHOOSE k \in 1..Len(stdout) : stdout[k].kind = "json"].array
    ELSE <<>>

\* Both parallel result sets were obtained in Json mode.
BothObtained ==
    /\ args.mode = "Json"
    /\ CalledOk("get_text_rects")
    /\ CalledOk("get_text_images")

\* Both were obtained and have the same count n >= 1.
Paired == BothObtained /\ Len(text_rects) = Len(text_images)

Degenerate(img) == ~(img.width > 0 /\ img.height > 0)

\* The record the claims expect for region k.
ExpectedRecord(k) ==
    [text |-> RecognizedText(k), confidence |-> 1,
     position |-> text_rects[k]]

\* C1: in Json mode, when the number of detected rectangles differs from the
\* number of extracted sub-images, the request fails with an EngineError,
\* recognition is invoked for no region and no record is output.
C1_MismatchFailsRequest ==
    (BothObtained /\ Len(text_rects) # Len(text_images)) =>
        /\ result.kind = "err"
        /\ result.error = "EngineError"
        /\ ~Called("recognize_text")
        /\ results = <<>>
        /\ RequestOutput = <<>>

C1_Witness ==
    /\ BothObtained
    /\ Len(text_rects) < Len(text_images)
    /\ result = Err("EngineError", "Inconsistent detection results")
    /\ \E k \in 1..Len(text_images) : ~Degenerate(text_images[k])

\* C2: in Json mode with n paired regions, a recognition failure on one
\* region does not abort the request: once the loop is over the request has
\* returned success and printed a record for every region whose sub-image
\* is non-degenerate and whose recognition succeeded.
C2_FailureOmitsOnlyThatRegion ==
    (Paired /\ \E f \in 1..Len(text_rects) : RecognizeFailedOn(f)) =>
        /\ pc = "loop" \/ Returned
        /\ Returned => result = Ok
        /\ Returned => \A j \in 1..Len(text_rects) :
              (~Degenerate(text_images[j]) /\ RecognizedOk(j)) =>
                  \E p \in 1..Len(PrintedRecords) :
                      /\ resultIdx[p] = j
                      /\ PrintedRecords[p] = ExpectedRecord(j)

C2_Witness ==
    /\ Paired
    /\ result = Ok
    /\ RecognizeFailedOn(1)
    /\ RecognizedOk(2)
    /\ Len(PrintedRecords) = 1

\* C3: Json output preserves detection order: the records pushed so far, and
\* the records printed, come from strictly increasing region indices, each
\* printed once at the place of its region.
C3_DetectionOrderPreserved ==
    args.mode = "Json" =>
        /\ Len(resultIdx) = Len(results)
        /\ \A p, q \in 1..Len(resultIdx) : p < q => resultIdx[p] < resultIdx[q]
        /\ \A p \in 1..Len(results) : results[p] = ExpectedRecord(resultIdx[p])
        /\ (Returned /\ result = Ok /\ text_rects # <<>>) =>
               /\ Len(RequestOutput) = 1
               /\ PrintedRecords = results

C3_Witness ==
    /\ args.mode = "Json"
    /\ result = Ok
    /\ Len(PrintedRecords) = 2
    /\ resultIdx = <<1, 2>>
    /\ PrintedRecords[1] # PrintedRecords[2]

\* C4: in Json mode a sub-image with zero width or zero height never yields a
\* record and is never given to recognition, wherever it stands; the other
\* regions are still processed and the request completes.
C4_DegenerateCropSkipped ==
    Paired =>
        /\ \A k \in 1..Len(text_images) :
              Degenerate(text_images[k]) =>
                  /\ ~RecognizeCalledOn(k)
                  /\ \A p \in 1..Len(resultIdx) : resultIdx[p] # k
        /\ Returned =>
              /\ result = Ok
              /\ \A k \in 1..Len(text_images) :
                    ~Degenerate(text_images[k]) => RecognizeCalledOn(k)

C4_Witness ==
    /\ Paired
    /\ result = Ok
    /\ Len(text_images) = 2
    /\ text_images[1].height = 0
    /\ text_images[1].width > 0
    /\ resultIdx = <<2>>

\* ---- vocabulary of the interactive-session claims
\* The content of a line between its first and last non-blank character.
Core(line) ==
    LET ink == {k \in 1..Len(line) : line[k] \notin {" ", "\t", "\r", "\n"}}
    IN  IF ink = {} THEN <<>>
        ELSE SubSeq(line, CHOOSE a \in ink : \A b \in ink : a <= b,
                          CHOOSE a \in ink : \A b \in ink : a >= b)

\* Upper-case form of a lower-case letter.
Capital(c) ==
    CASE c = "e" -> "E" [] c = "x" -> "X" [] c = "i" -> "I" [] c = "t" -> "T"
      [] c = "q" -> "Q" [] c = "u" -> "U" [] c = "y" -> "Y" [] c = "s" -> "S"
      [] c = "j" -> "J" [] c = "p" -> "P" [] c = "g" -> "G" [] c = "n" -> "N"
      [] c = "b" -> "B" [] c = "m" -> "M" [] c = "f" -> "F" [] c = "w" -> "W"
      [] OTHER -> c

\* s spells the lower-case word w in some mix of letter cases.
SpellsIgnoringCase(s, w) ==
    /\ Len(s) = Len(w)
    /\ \A k \in 1..Len(w) : s[k] = w[k] \/ s[k] = Capital(w[k])

ExitDirective(line) ==
    \/ SpellsIgnoringCase(Core(line), <<"e","x","i","t">>)
    \/ SpellsIgnoringCase(Core(line), <<"q","u","i","t">>)

Affirmative(line) ==
    \/ SpellsIgnoringCase(Core(line), <<"y">>)
    \/ SpellsIgnoringCase(Core(line), <<"y","e","s">>)

\* The path ends in a dot followed by one of the recognized extensions.
RecognizedImageName(p) ==
    \E e \in { <<"j","p","g">>, <<"j","p","e","g">>, <<"p","n","g">>,
               <<"b","m","p">>, <<"t","i","f","f">>, <<"w","e","b","p">> } :
        /\ Len(p) > Len(e) + 1
        /\ p[Len(p) - Len(e)] = "."
        /\ SpellsIgnoringCase(SubSeq(p, Len(p) - Len(e) + 1, Len(p)), e)

FileSystem ==
    { <<"a",".","p","n","g">>, <<"b",".","J","P","G">>,
      <<"c",".","t","x","t">>, <<"n","o","e","x","t">> }

\* lastLine was read at the main prompt of the running session (no line has
\* been read at the confirmation prompt in this iteration).
AtMainLine == args.interactive /\ iterations > 0 /\ confirm = <<"None">>

\* lastLine was read at the confirmation prompt.
AtConfirmLine == args.interactive /\ iterations > 0 /\ confirm # <<"None">>

\* process_ocr_with_mode has been entered in this iteration.
ProcessingInvoked == pc \in {"load", "detect", "extract", "loop", "text"} \/ Returned

Asked == \E k \in 1..Len(stdout) : stdout[k].text = "Do you want to continue? (y/N): "

\* Nothing but the prompt happened in this iteration.
JustReprompted ==
    /\ pc = "prompt"
    /\ exitCode = -1
    /\ calls = <<>>
    /\ ~ProcessingInvoked
    /\ ~Asked
    /\ stderr = <<>>

\* C5: a line read at the main prompt ends the session iff its trimmed
\* content is "exit" or "quit" in any letter case; a line that is blank after
\* trimming never ends it and leads to no validation, confirmation or engine
\* call, only to the next prompt.
C5_ExitIffExitDirective ==
    AtMainLine =>
        /\ (pc = "done") <=> ExitDirective(lastLine)
        /\ pc = "done" => exitCode = 0
        /\ Core(lastLine) = <<>> => JustReprompted

C5_Witness ==
    /\ AtMainLine
    /\ pc = "done"
    /\ lastLine = <<" ","E","X","I","T"," ","\n">>
    /\ exitCode = 0

\* C6: in interactive mode an error returned by process_ocr_with_mode is
\* logged and the session is back at the prompt, still running with its
\* engine; the session ends only with exit status 0 on an exit directive
\* read at the main prompt.
C6_ErrorsKeepSessionRunning ==
    (args.interactive /\ engineInitialized) =>
        /\ (Returned /\ result.kind = "err") =>
              /\ pc = "prompt"
              /\ exitCode = -1
              /\ stderr # <<>>
              /\ stderr[Len(stderr)] = "Error processing image"
        /\ errors > 0 => (pc = "done" <=> (AtMainLine /\ ExitDirective(lastLine)))
        /\ pc = "done" => exitCode = 0

C6_Witness ==
    /\ args.interactive
    /\ errors = 1
    /\ iterations = 2
    /\ result = Ok
    /\ Len(RequestOutput) > 0

\* C7: the engine is initialised at most once in a run and exactly once,
\* successfully, before any prompt, any read and any image processing; no
\* iteration of the interactive loop initialises it again or resets it.
C7_EngineInitialisedOnce ==
    /\ initCalls <= 1
    /\ (pc \notin {"main", "done"} \/ iterations > 0 \/ calls # <<>> \/ Returned)
          => (initCalls = 1 /\ engineInitialized)
    /\ engineInitialized => initCalls = 1

C7_Witness ==
    /\ args.interactive
    /\ iterations = 2
    /\ errors = 1
    /\ calls # <<>>
    /\ initCalls = 1

\* C8: a non-blank, non-exit line at the main prompt naming a path that does
\* not exist prints an error and returns to the prompt: no confirmation, no
\* processing, no engine or image call in that iteration.
C8_MissingFileReprompts ==
    (AtMainLine /\ Core(lastLine) # <<>> /\ ~ExitDirective(lastLine)
       /\ Core(lastLine) \notin FileSystem) =>
        /\ pc = "prompt"
        /\ exitCode = -1
        /\ stderr = <<"Error: File does not exist">>
        /\ ~Asked
        /\ ~ProcessingInvoked
        /\ calls = <<>>

C8_Witness ==
    /\ AtMainLine
    /\ lastLine = <<"g","o","n","e",".","p","n","g","\n">>
    /\ stderr = <<"Error: File does not exist">>
    /\ pc = "prompt"

\* C9: for an existing file whose extension is not a recognized one (or that
\* has none) the session asks for confirmation and processing is invoked iff
\* the trimmed answer is "y" or "yes" in any letter case, any other answer
\* going back to the prompt with no engine call; for an existing file with a
\* recognized extension in any letter case processing is invoked unasked.
C9_ConfirmationGate ==
    /\ (AtMainLine /\ Core(lastLine) \in FileSystem) =>
          IF RecognizedImageName(Core(lastLine))
          THEN ProcessingInvoked /\ ~Asked
          ELSE pc = "confirm" /\ Asked /\ ~ProcessingInvoked /\ calls = <<>>
    /\ AtConfirmLine =>
          /\ Asked
          /\ path \in FileSystem /\ ~RecognizedImageName(path)
          /\ ProcessingInvoked <=> Affirmative(lastLine)
          /\ ~Affirmative(lastLine) => (pc = "prompt" /\ calls = <<>>)
    /\ pc = "confirm" => AtMainLine

C9_Witness ==
    /\ AtConfirmLine
    /\ path = <<"n","o","e","x","t">>
    /\ lastLine = <<"Y","E","S","\n">>
    /\ Called("image::open")

ZeroArea(rect) == rect.width = 0 \/ rect.height = 0

\* C11: zero-area detected regions are rejected before recognition: in Json
\* mode recognize_text is never called for a detected rectangle whose width
\* or height is zero, and no record pushed or printed has a position with
\* zero width or zero height.
C11_ZeroAreaRectRejected ==
    Paired =>
        /\ \A k \in 1..Len(text_rects) :
              ZeroArea(text_rects[k]) => ~RecognizeCalledOn(k)
        /\ \A p \in 1..Len(results) : ~ZeroArea(results[p].position)
        /\ \A p \in 1..Len(PrintedRecords) : ~ZeroArea(PrintedRecords[p].position)

SingleShot == ~args.version_info /\ ~args.interactive

\* The first call of this run, image::open, returned Err.
ImageLoadFailed ==
    \E c \in 1..Len(calls) : calls[c].op = "image::open" /\ ~calls[c].ok

\* C12: the exit status is 0 on success, --version-info and a graceful
\* interactive exit included, and non-zero when single-shot mode has no
\* path, when the input file does not exist, and when engine initialisation
\* or image loading fails; a running process has no status yet.
C12_ExitCodes ==
    /\ (pc = "done") <=> (exitCode # -1)
    /\ pc = "done" =>
          /\ args.version_info => exitCode = 0
          /\ (~args.version_info /\ initCalls = 1 /\ ~engineInitialized)
                => exitCode # 0
          /\ (args.interactive /\ ~args.version_info /\ engineInitialized)
                => (exitCode = 0 /\ AtMainLine /\ ExitDirective(lastLine))
          /\ (SingleShot /\ args.path = <<"None">>) => exitCode # 0
          /\ (SingleShot /\ args.path # <<"None">> /\ args.path \notin FileSystem)
                => exitCode # 0
          /\ (SingleShot /\ ImageLoadFailed) => exitCode # 0
          /\ (SingleShot /\ result.kind = "err") => exitCode # 0
          /\ (SingleShot /\ result.kind = "ok") => exitCode = 0
          /\ exitCode = 0 =>
                \/ args.version_info
                \/ args.interactive /\ engineInitialized
                \/ SingleShot /\ result.kind = "ok"

C12_Witness ==
    /\ SingleShot
    /\ pc = "done"
    /\ ImageLoadFailed
    /\ exitCode = 1

\* Number of times process_ocr_with_mode has run: it opens the image first.
PipelineRuns == Cardinality({c \in 1..Len(calls) : calls[c].op = "image::open"})

\* No line was read and no prompt was printed.
NoPrompt ==
    /\ iterations = 0
    /\ lastLine = <<"None">>
    /\ \A k \in 1..Len(stdout) :
          stdout[k].text \notin {"> ", "Do you want to continue? (y/N): "}

BadSingleShotInput == args.path = <<"None">> \/ args.path \notin FileSystem

\* In single-shot mode a missing path argument or a nonexistent file ends
\* the process with an error before the engine is initialised or called,
\* without retry or prompt.
SingleShotInputErrorIsFatal ==
    (SingleShot /\ BadSingleShotInput) =>
        /\ initCalls = 0
        /\ ~engineInitialized
        /\ calls = <<>>
        /\ NoPrompt
        /\ pc \in {"main", "done"}
        /\ pc = "done" => (exitCode = 1 /\ stderr # <<>> /\ stdout = <<>>)

\* C13 as stated: with a path that exists, the engine is initialised once
\* and the pipeline has run exactly once when the process terminates.
C13_Original ==
    /\ SingleShotInputErrorIsFatal
    /\ (SingleShot /\ ~BadSingleShotInput /\ pc = "done") =>
          /\ initCalls = 1
          /\ PipelineRuns = 1

\* C13, amended: with a path that exists, the engine is initialised once;
\* when that initialisation succeeds the pipeline runs exactly once before
\* the process terminates, and when it fails the process terminates with an
\* error without running the pipeline.
C13_SingleShotRunsOnce ==
    /\ SingleShotInputErrorIsFatal
    /\ SingleShot => (initCalls <= 1 /\ PipelineRuns <= 1 /\ NoPrompt)
    /\ (SingleShot /\ PipelineRuns = 1) => engineInitialized
    /\ (SingleShot /\ ~BadSingleShotInput /\ pc = "done") =>
          /\ initCalls = 1
          /\ IF engineInitialized
             THEN PipelineRuns = 1 /\ Returned
             ELSE PipelineRuns = 0 /\ exitCode = 1 /\ ~Returned

C13_Witness ==
    /\ SingleShot
    /\ pc = "done"
    /\ engineInitialized
    /\ PipelineRuns = 1
    /\ result = Ok
    /\ args.mode = "Json"
    /\ Len(PrintedRecords) = 2

\* C14: with --version-info the program prints the model version tag and
\* exits 0 without initialising the engine, reading operator input or
\* processing an image, whatever --server, --path and --mode are.
C14_VersionInfoBypassesEngine ==
    args.version_info =>
        /\ pc \in {"main", "done"}
        /\ initCalls = 0
        /\ ~engineInitialized
        /\ NoPrompt
        /\ calls = <<>>
        /\ PipelineRuns = 0
        /\ ~Returned
        /\ stderr = <<>>
        /\ pc = "main" => (stdout = <<>> /\ exitCode = -1)
        /\ pc = "done" =>
              /\ exitCode = 0
              /\ Len(stdout) = 1
              /\ stdout[1].kind = "line"
              /\ stdout[1].text = "PaddleOCR CLI - Model Version: PP-OCR"

C14_Witness ==
    /\ args.version_info
    /\ args.interactive
    /\ args.path = <<"None">>
    /\ args.mode = "Json"
    /\ pc = "done"
    /\ exitCode = 0
    /\ Len(stdout) = 1

\* The record rec carries the recognised text and the rectangle of region k.
CarriesRegion(rec, k) ==
    /\ RecognizedOk(k)
    /\ rec.text = RecognizedText(k)
    /\ rec.confidence = 1
    /\ rec.position.left = text_rects[k].left
    /\ rec.position.top = text_rects[k].top
    /\ rec.position.width = text_rects[k].width
    /\ rec.position.height = text_rects[k].height

HelloRect == [left |-> 10, top |-> 5, width |-> 40, height |-> 12]

\* C15: every record emitted in Json mode for region index k carries the
\* text recognize_text returned for the sub-image at index k, the position
\* of the rectangle at index k and confidence 1.0; one region
\* {left:10, top:5, width:40, height:12} recognised as "Hello" yields exactly
\* one record with that text, confidence and position.
C15_RecordCarriesItsRegion ==
    args.mode = "Json" =>
        /\ \A p \in 1..Len(results) : CarriesRegion(results[p], resultIdx[p])
        /\ \A p \in 1..Len(PrintedRecords) :
              CarriesRegion(PrintedRecords[p], resultIdx[p])
        /\ (Paired /\ Returned /\ text_rects = <<HelloRect>>
              /\ RecognizedOk(1) /\ RecognizedText(1) = "Hello") =>
                 RequestOutput =
                    << [kind |-> "json", text |-> "",
                        array |-> << [text |-> "Hello", confidence |-> 1,
                                      position |-> HelloRect] >>] >>

C15_Witness ==
    /\ args.mode = "Json"
    /\ Returned
    /\ text_rects = <<HelloRect>>
    /\ RecognizedOk(1)
    /\ RecognizedText(1) = "Hello"
    /\ Len(PrintedRecords) = 1

\* Number of calls of the engine operation op in this request.
CallCount(op) == Cardinality({c \in 1..Len(calls) : calls[c].op = op})

\* The strings the full-pipeline call returned.
ReturnedStrings ==
    calls[CHOOSE c \in 1..Len(calls) : calls[c].op = "process_ocr"].text

\* C16: in Text mode the request makes a single full-pipeline call and
\* prints exactly the strings it returned, one per line and in the returned
\* order; detection, crop extraction and recognition are not called
\* separately; when the call fails the request fails with that error and
\* prints no line.
C16_TextModePrintsVerbatim ==
    (args.mode = "Text" /\ ~args.version_info) =>
        /\ CallCount("process_ocr") <= 1
        /\ ~Called("get_text_rects")
        /\ ~Called("get_text_images")
        /\ ~Called("recognize_text")
        /\ results = <<>>
        /\ ~Called("process_ocr") => RequestOutput = <<>>
        /\ (Returned /\ ~ImageLoadFailed) => CallCount("process_ocr") = 1
        /\ CalledOk("process_ocr") =>
              /\ result = Ok
              /\ Len(RequestOutput) = Len(ReturnedStrings)
              /\ \A k \in 1..Len(ReturnedStrings) :
                    /\ RequestOutput[k].kind = "line"
                    /\ RequestOutput[k].text = ReturnedStrings[k]
        /\ (Called("process_ocr") /\ ~CalledOk("process_ocr")) =>
              /\ result.kind = "err"
              /\ result.msg = "process_ocr"
              /\ RequestOutput = <<>>

C16_Witness ==
    /\ args.mode = "Text"
    /\ CalledOk("process_ocr")
    /\ ReturnedStrings = <<"Hello", "World">>
    /\ Len(RequestOutput) = 2
    /\ result = Ok

\* Positions of one loop iteration past the prompt.
MidIteration == pc \in {"confirm", "load", "detect", "extract", "loop", "text"}

\* C17: in interactive mode, when every console read and engine call
\* returns, an iteration that has left the prompt comes back to the prompt
\* or ends the session; an exit directive read at the main prompt ends the
\* session with exit status 0, and after that nothing is read, called or
\* written any more.
C17_IterationsCompleteAndExitIsFinal ==
    /\ (args.interactive /\ MidIteration) ~> (pc \in {"prompt", "done"})
    /\ [](( AtMainLine /\ ExitDirective(lastLine)) => (pc = "done" /\ exitCode = 0))
    /\ [][pc = "done" => UNCHANGED vars]_vars

C17_Witness ==
    /\ args.interactive
    /\ iterations = 2
    /\ errors = 1
    /\ pc = "done"
    /\ exitCode = 0
    /\ ExitDirective(lastLine)

\* A request is running or has returned in Json mode.
JsonRequest ==
    /\ args.mode = "Json"
    /\ ~args.version_info
    /\ pc \in {"load", "detect", "extract", "loop"} \/ Returned

\* x is one printed JSON array, empty or not.
IsJsonArray(x) == x.kind = "json" \/ (x.kind = "line" /\ x.text = "[]")

\* C18: in Json mode one request writes to standard output at most once:
\* exactly one JSON array when it returns success and nothing when it
\* returns an error, a serialisation failure surfacing as OutputError;
\* nothing is printed before the request returns.
C18_JsonPrintsOnceOnSuccess ==
    JsonRequest =>
        /\ Len(RequestOutput) <= 1
        /\ ~Returned => RequestOutput = <<>>
        /\ (Returned /\ result.kind = "ok") =>
              /\ Len(RequestOutput) = 1
              /\ IsJsonArray(RequestOutput[1])
        /\ (Returned /\ result.kind = "err") =>
              /\ RequestOutput = <<>>
              /\ result.error \in {"ImageError", "EngineError", "OutputError"}
              /\ result.msg = "to_string_pretty" <=> result.error = "OutputError"

C18_Witness ==
    /\ JsonRequest
    /\ result = Err("EngineError", "Inconsistent detection results")
    /\ Len(text_images) = 2
    /\ RequestOutput = <<>>

\* Region indices with a non-degenerate crop and a successful recognition.
Recognised ==
    {k \in 1..Len(text_images) : ~Degenerate(text_images[k]) /\ RecognizedOk(k)}

\* C19: in Json mode with n >= 1 regions and as many crops, the request
\* returns success and prints as many records as there are indices with a
\* non-degenerate crop and a successful recognition, never more than n; when
\* there is none the output is the empty array "[]".
C19_RecordCountAndEmptyArray ==
    (Paired /\ Returned) =>
        /\ Len(text_rects) >= 1
        /\ result = Ok
        /\ Len(PrintedRecords) = Cardinality(Recognised)
        /\ Len(PrintedRecords) <= Len(text_rects)
        /\ Len(RequestOutput) = 1
        /\ Recognised = {} =>
              RequestOutput = << [kind |-> "line", text |-> "[]", array |-> <<>>] >>
        /\ Recognised # {} => RequestOutput[1].kind = "json"

C19_Witness ==
    /\ Paired
    /\ Returned
    /\ Len(text_rects) = 2
    /\ Degenerate(text_images[1])
    /\ RecognizeFailedOn(2)
    /\ Len(RequestOutput) = 1
    /\ RequestOutput[1].text = "[]"

\* The line just read answered the confirmation question with an exit word.
ExitWordAtConfirm == AtConfirmLine /\ ExitDirective(lastLine)

\* C20: an exit word given to the confirmation question does not end the
\* session and does not reach the engine: the session is back at the main
\* prompt with no exit status, no engine call and no request output, and
\* the next line read is read at the main prompt.
C20_ExitWordAtConfirmIsJustNo ==
    /\ [](ExitWordAtConfirm =>
            /\ pc = "prompt"
            /\ exitCode = -1
            /\ ~ProcessingInvoked
            /\ calls = <<>>
            /\ RequestOutput = <<>>)
    /\ [][ExitWordAtConfirm => AtMainLine']_vars

C20_Witness ==
    /\ ExitWordAtConfirm
    /\ lastLine = <<"q", "u", "i", "t", "\n">>
    /\ Asked
    /\ pc = "prompt"
====
